---- MODULE Spec2Model ----
(***************************************************************************)
(* Model of the cashofferai-backend HTTP layer.                            *)
(*                                                                         *)
(*   - src/server.js: the carAPI variant.  POST /api/vehicle/decode with   *)
(*     the process-wide JWT cache (cachedJWT, jwtExpiry), getCarAPIToken   *)
(*     and the MSRP-aware calculateBaseValue.                              *)
(*   - src/unnamed/part_003: the NHTSA variant.  POST /api/vehicle/decode, *)
(*     POST /api/offer/calculate and the multiplicative                    *)
(*     calculateBaseValue.                                                 *)
(*                                                                         *)
(* Node runs every handler on one thread: a handler runs without           *)
(* interruption from one await to the next, so each action below is one    *)
(* such run-to-completion segment.  Time is counted in units of three days *)
(* since the process started.  JavaScript numbers are doubles: the         *)
(* arithmetic below is exact integer arithmetic, and where Math.round      *)
(* meets an exact tie that the double computation misses, the tie tables   *)
(* say so.                                                                 *)
(***************************************************************************)
EXTENDS Integers, Sequences, FiniteSets, TLC

VARIABLES
    cachedJWT,      \* server.js: let cachedJWT  (NoToken = null)
    jwtExpiry,      \* server.js: let jwtExpiry  (NoExpiry = null)
    now,            \* new Date() / Date.now(), in units of three days
    credsConfigured,\* process.env.CARAPI_TOKEN && process.env.CARAPI_SECRET
    deployed,       \* which of the two server files is the running app
    reqs,           \* server.js decode requests in flight, one record per slot
    last,           \* server.js: the decode request answered most recently
    nreq,           \* part_003 decode request (NHTSA variant)
    valIn,          \* input of calculateBaseValue under SpecValue
    valOut,         \* results of calculateBaseValue under SpecValue
    offerIn,        \* request body of POST /api/offer/calculate
    offerOut        \* its response

vars == <<cachedJWT, jwtExpiry, now, credsConfigured, deployed, reqs, last, nreq,
          valIn, valOut, offerIn, offerOut>>

decodeVars == <<cachedJWT, jwtExpiry, now, credsConfigured, deployed, reqs, last,
                nreq>>
valueVars  == <<valIn, valOut>>
offerVars  == <<offerIn, offerOut>>

(***************************************************************************)
(* Bounds of the model.                                                    *)
(***************************************************************************)
NumReqs   == 2      \* concurrent decode requests (slots are reused)
MaxTime   == 3      \* how far the clock may advance, in units of three days
MaxTokens == 2      \* distinct JWTs the login endpoint hands out
MaxAge    == 8      \* oldest vehicle age drawn as input
ThisYear  == 2026   \* new Date().getFullYear()

(***************************************************************************)
(* Program constants.                                                      *)
(***************************************************************************)
VinLength       == 17       \* vin.length !== 17
TokenLifetime   == 2        \* 6 * 24 * 60 * 60 * 1000 ms, in units of three days
DefaultYear     == 2020     \* vehicle.year || 2020
MinimumValue    == 1000     \* Math.max(..., 1000)
AnchorValue     == 25000    \* let baseValue = 25000
DefaultBaseValue == 25000   \* vehicleData.baseValue || 25000
MilesPerYear    == 12000    \* 12000 * vehicleAge

NoToken  == 0
NoExpiry == -1
Tokens   == 1..MaxTokens
ReqIds   == 1..NumReqs

\* vin lengths a request may carry; 0 stands for a missing or empty vin
VinLengths == {0, VinLength - 1, VinLength, VinLength + 1}


(***************************************************************************)
(* Strings.  The program only ever asks whether a string contains a        *)
(* keyword (String.prototype.includes) or is a member of a list            *)
(* (Array.prototype.includes, strict equality).  Substrings(s) lists the   *)
(* keywords of the program that occur in s, case-sensitively; the          *)
(* lower-case keywords are those of s.toLowerCase().                       *)
(***************************************************************************)
BodyClasses ==
    { "", "Sedan/Saloon", "Pickup", "Truck", "Minivan", "Coupe",
      "Convertible/Cabriolet",
      "Sport Utility Vehicle (SUV)/Multi-Purpose Vehicle (MPV)" }
Makes     == { "Unknown", "BMW", "Toyota", "Ford", "HONDA" }
FuelTypes == { "", "Electric", "Hybrid" }

Substrings(s) ==
    CASE s = "Pickup"  -> {"Pickup"}
      [] s = "Truck"   -> {"Truck", "truck"}
      [] s = "Minivan" -> {"Minivan"}
      [] s = "Coupe"   -> {"Coupe"}
      [] s = "Convertible/Cabriolet" -> {"Convertible"}
      [] s = "Sport Utility Vehicle (SUV)/Multi-Purpose Vehicle (MPV)"
                       -> {"SUV", "Sport Utility", "suv"}
      [] s = "BMW"     -> {"BMW", "bmw"}
      [] s = "Toyota"  -> {"Toyota", "toyota"}
      [] s = "Ford"    -> {"Ford"}
      [] s = "HONDA"   -> {"HONDA", "honda"}
      [] s = "Electric" -> {"Electric"}
      [] s = "Hybrid"  -> {"Hybrid"}
      [] OTHER         -> {}

\* s.includes(kw), for a mixed-case keyword
Includes(s, kw) == kw \in Substrings(s)
\* s.toLowerCase().includes(kw), for a lower-case keyword
LowerIncludes(s, kw) == kw \in Substrings(s)

premiumMakes  == { "Tesla", "BMW", "Mercedes-Benz", "Audi", "Lexus", "Porsche",
                   "Land Rover", "Genesis", "Infiniti", "Acura", "Volvo",
                   "Jaguar", "Maserati", "Alfa Romeo" }
reliableMakes == { "Toyota", "Honda", "Mazda", "Subaru" }
truckMakes    == { "Ford", "Chevrolet", "GMC", "Ram", "Dodge" }

(***************************************************************************)
(* Inputs of the valuation functions.  A year of 0 stands for a missing    *)
(* or unparsable year (null in part_003, where `vehicle.year || 2020`      *)
(* replaces it; NaN after parseInt in server.js, where every `age <= n`    *)
(* comparison is then false, exactly as for the age 2026 that year 0       *)
(* gives).  engineCylinders 0 stands for null, msrp 0 for null or absent;  *)
(* a negative msrp is a number the upstream may send.                      *)
(***************************************************************************)
Ages      == (0 - 1)..MaxAge
Years     == {0} \cup { ThisYear - a : a \in Ages }
Cylinders == {0, 4, 6, 8}
Msrps     == {0 - 500, 0, 1000, 6660, 31995}

Vehicles ==
    [ year : Years, make : Makes, bodyClass : BodyClasses,
      fuelType : FuelTypes, engineCylinders : Cylinders ]

Max(a, b) == IF a >= b THEN a ELSE b
Min(a, b) == IF a <= b THEN a ELSE b

(***************************************************************************)
(* part_003: calculateBaseValue(vehicle), the multiplicative variant.      *)
(* Rates and multipliers are in percent.                                   *)
(***************************************************************************)
\* const age = currentYear - (vehicle.year || 2020)
VehicleAge(year) == ThisYear - (IF year # 0 THEN year ELSE DefaultYear)

DepreciationRateUncapped(age) ==
    IF age = 0 THEN 0
    ELSE IF age = 1 THEN 20
    ELSE IF age <= 5 THEN 20 + (age - 1) * 15
    ELSE 20 + 4 * 15 + (age - 5) * 10

\* (mutant) the cap set at 90% instead of 85%
DepreciationRateCapNinety(age) == Min(DepreciationRateUncapped(age), 90)

\* depreciationRate = Math.min(depreciationRate, 0.85)
DepreciationRate(age) == Min(DepreciationRateUncapped(age), 85)

\* baseValue = baseValue * (1 - depreciationRate), before any multiplier
DepreciatedValue(age) == (AnchorValue \div 100) * (100 - DepreciationRate(age))

BrandMultiplier(v) ==
    IF v.make \in premiumMakes THEN 140
    ELSE IF v.make \in reliableMakes THEN 115
    ELSE IF v.make \in truckMakes /\ Includes(v.bodyClass, "Truck") THEN 130
    ELSE 100

BodyMultiplier(v) ==
    IF Includes(v.bodyClass, "SUV") \/ Includes(v.bodyClass, "Sport Utility")
        THEN 120
    ELSE IF Includes(v.bodyClass, "Truck") \/ Includes(v.bodyClass, "Pickup")
        THEN 125
    ELSE IF Includes(v.bodyClass, "Minivan") THEN 90
    ELSE IF Includes(v.bodyClass, "Convertible") \/ Includes(v.bodyClass, "Coupe")
        THEN 110
    ELSE 100

FuelMultiplier(v) ==
    IF Includes(v.fuelType, "Electric") THEN 120
    ELSE IF Includes(v.fuelType, "Hybrid") THEN 110
    ELSE 100

EngineMultiplier(v) ==
    IF v.engineCylinders >= 8 THEN 115
    ELSE IF v.engineCylinders = 6 THEN 105
    ELSE 100

\* Inputs (rate, brand, body, fuel, engine) whose exact product ends in .5
\* and whose double product lies just below it: Math.round rounds these
\* down where exact arithmetic would round up.
TiesRoundedDown ==
    {
      <<-10, 140, 100, 110, 115>>, <<-10, 140, 110, 100, 115>>, <<0, 140, 125, 100, 115>>,
      <<0, 140, 110, 110, 115>>, <<0, 115, 100, 100, 115>>, <<0, 115, 100, 100, 105>>,
      <<0, 115, 120, 110, 115>>, <<0, 115, 120, 110, 105>>, <<0, 115, 125, 100, 100>>,
      <<0, 115, 90, 120, 115>>, <<0, 115, 90, 120, 105>>, <<0, 130, 125, 120, 115>>,
      <<35, 100, 120, 110, 115>>, <<35, 100, 110, 120, 115>>, <<35, 140, 100, 100, 115>>,
      <<35, 140, 90, 120, 115>>, <<35, 115, 120, 120, 115>>, <<35, 130, 100, 120, 115>>,
      <<35, 130, 120, 100, 115>>, <<50, 100, 90, 100, 115>>, <<50, 140, 125, 120, 115>>,
      <<50, 115, 100, 120, 115>>, <<50, 115, 100, 120, 105>>, <<50, 115, 120, 100, 115>>,
      <<50, 115, 120, 100, 105>>, <<50, 115, 125, 120, 100>>, <<50, 115, 90, 100, 100>>,
      <<50, 130, 120, 110, 115>>, <<50, 130, 110, 120, 115>>, <<80, 100, 125, 100, 115>>,
      <<80, 100, 125, 100, 105>>, <<80, 100, 90, 110, 115>>, <<80, 100, 90, 110, 105>>,
      <<80, 100, 110, 110, 115>>, <<80, 100, 110, 110, 105>>, <<80, 140, 125, 100, 115>>,
      <<80, 140, 125, 100, 105>>, <<80, 140, 90, 110, 115>>, <<80, 140, 90, 110, 105>>,
      <<80, 140, 110, 110, 115>>, <<80, 140, 110, 110, 105>>, <<80, 115, 100, 100, 115>>,
      <<80, 115, 100, 100, 105>>, <<80, 115, 120, 110, 115>>, <<80, 115, 120, 110, 105>>,
      <<80, 115, 125, 100, 100>>, <<80, 115, 90, 120, 115>>, <<80, 115, 90, 120, 105>>,
      <<80, 115, 90, 110, 100>>, <<80, 115, 110, 120, 115>>, <<80, 115, 110, 120, 105>>,
      <<80, 115, 110, 110, 100>>, <<80, 130, 125, 120, 115>>, <<80, 130, 125, 120, 105>>,
      <<80, 130, 90, 100, 115>>, <<80, 130, 90, 100, 105>>, <<85, 140, 100, 100, 115>>,
      <<85, 140, 90, 120, 115>>, <<85, 115, 120, 120, 115>>
    }

\* Math.round(baseValue) after the four multiplications.  With every
\* multiplier in twentieths and the depreciated value a multiple of 1250,
\* the product is n / 128.
RoundedProduct(v) ==
    LET d == DepreciationRate(VehicleAge(v.year))
        n == ((100 - d) \div 5) * (BrandMultiplier(v) \div 5)
               * (BodyMultiplier(v) \div 5) * (FuelMultiplier(v) \div 5)
               * (EngineMultiplier(v) \div 5)
        key == <<d, BrandMultiplier(v), BodyMultiplier(v), FuelMultiplier(v),
                 EngineMultiplier(v)>>
    IN  IF n % 128 = 64 /\ key \in TiesRoundedDown
        THEN (n - 64) \div 128
        ELSE (n + 64) \div 128

\* return Math.max(Math.round(baseValue), 1000)
CalculateBaseValue(v) == Max(RoundedProduct(v), MinimumValue)

(***************************************************************************)
(* server.js: calculateBaseValue(vehicle, msrp), the MSRP-aware variant.   *)
(***************************************************************************)
\* const age = currentYear - parseInt(vehicle.year)
CarApiAge(year) == ThisYear - year

\* the share of the MSRP retained, in percent
RetainedRate(age) ==
    IF age <= 1 THEN 80
    ELSE IF age <= 2 THEN 70
    ELSE IF age <= 3 THEN 60
    ELSE IF age <= 5 THEN 45
    ELSE IF age <= 7 THEN 35
    ELSE IF age <= 10 THEN 25
    ELSE 15

\* the tier value when no MSRP is known, in thousands
AgeTierValue(age) ==
    IF age <= 1 THEN 35
    ELSE IF age <= 3 THEN 28
    ELSE IF age <= 5 THEN 22
    ELSE IF age <= 7 THEN 18
    ELSE IF age <= 10 THEN 14
    ELSE 10

CarApiMultipliers(v) ==
      (IF LowerIncludes(v.bodyClass, "truck") THEN 12 ELSE 10)
    * (IF LowerIncludes(v.bodyClass, "suv") THEN 115 ELSE 100)
    * (IF LowerIncludes(v.make, "bmw") \/ LowerIncludes(v.make, "mercedes")
       THEN 13 ELSE 10)
    * (IF LowerIncludes(v.make, "honda") \/ LowerIncludes(v.make, "toyota")
       THEN 11 ELSE 10)

\* (mutant) the make multiplier applied on the MSRP path as well
CalculateBaseValueCarApiBothPaths(v, msrp) ==
    IF msrp > 0
    THEN (msrp * RetainedRate(CarApiAge(v.year))
            * (IF LowerIncludes(v.make, "bmw") \/ LowerIncludes(v.make, "mercedes")
               THEN 13 ELSE 10) + 500) \div 1000
    ELSE (AgeTierValue(CarApiAge(v.year)) * CarApiMultipliers(v) + 50) \div 100

\* return Math.round(baseValue): no minimum is applied in this variant
CalculateBaseValueCarApi(v, msrp) ==
    IF msrp > 0
    THEN (msrp * RetainedRate(CarApiAge(v.year)) + 50) \div 100
    ELSE (AgeTierValue(CarApiAge(v.year)) * CarApiMultipliers(v) + 50) \div 100

(***************************************************************************)
(* SpecValue: the two valuation functions applied to drawn inputs.         *)
(***************************************************************************)
NoValues == [ nhtsaDone |-> FALSE, nhtsa |-> 0, carApiDone |-> FALSE, carApi |-> 0 ]

ApplyCalculateBaseValue ==
    /\ ~valOut.nhtsaDone
    /\ valOut' = [valOut EXCEPT !.nhtsaDone = TRUE,
                                !.nhtsa = CalculateBaseValue(valIn.vehicle)]
    /\ UNCHANGED <<valIn, decodeVars, offerVars>>

ApplyCalculateBaseValueCarApi ==
    /\ ~valOut.carApiDone
    /\ valOut' = [valOut EXCEPT !.carApiDone = TRUE,
                    !.carApi = CalculateBaseValueCarApi(valIn.vehicle, valIn.msrp)]
    /\ UNCHANGED <<valIn, decodeVars, offerVars>>

(***************************************************************************)
(* part_003: POST /api/offer/calculate.                                    *)
(*                                                                         *)
(* The request body: vehicleData (absent, or with baseValue and year, 0    *)
(* standing for a missing or falsy field), conditionData (absent, or one   *)
(* entry per flag: "true", "false" or "absent"), mileage (absent or a      *)
(* number) and hasPhotos.                                                  *)
(***************************************************************************)
ConditionKeys == { "tires", "windshield", "lights", "accidents" }
FlagValues    == { "true", "false", "absent" }

\* const conditionAdjustments = { tires: -300, ... }
conditionAdjustments ==
    [ tires |-> 0 - 300, windshield |-> 0 - 200, lights |-> 0 - 500,
      accidents |-> 0 - 2000 ]

BaseValues    == { 0, 500, 1000, 1300, 4000, 25000 }
OfferAges     == { 0 - 1, 0, MaxAge }
OfferYears    == { 0 } \cup { ThisYear - a : a \in OfferAges }
MileageDeltas == { 0 - 12000, 0, 1, 10, 29, 30, 290, 20000, 480000 }

\* const vehicleAge = currentYear - (vehicleData.year || 2020)
\* const expectedMileage = 12000 * vehicleAge
ExpectedMileage(year) == MilesPerYear * VehicleAge(year)

\* the request bodies drawn as input
VehicleDatas ==
    { [ has |-> FALSE, baseValue |-> 0, year |-> 0 ] }
    \cup [ has : {TRUE}, baseValue : BaseValues, year : OfferYears ]
ConditionDatas ==
    { [ has |-> FALSE, flags |-> [k \in ConditionKeys |-> "absent"] ] }
    \cup [ has : {TRUE}, flags : [ConditionKeys -> FlagValues] ]
MileageInputs(year) ==
    { [ has |-> FALSE, value |-> 0 ] }
    \cup { [ has |-> TRUE, value |-> ExpectedMileage(year) + d ] : d \in MileageDeltas }

OfferBody(vd, cd, m, photos) ==
    [ hasVehicleData |-> vd.has, baseValue |-> vd.baseValue, year |-> vd.year,
      hasConditionData |-> cd.has, flags |-> cd.flags,
      hasMileage |-> m.has, mileage |-> m.value, hasPhotos |-> photos ]

\* vehicleData.baseValue || 25000
RetailValue(b) == IF b.baseValue # 0 THEN b.baseValue ELSE DefaultBaseValue

RECURSIVE SumAdjustments(_, _)
SumAdjustments(flags, keys) ==
    IF keys = {} THEN 0
    ELSE LET k == CHOOSE x \in keys : TRUE
         IN  (IF flags[k] = "false" THEN conditionAdjustments[k] ELSE 0)
             + SumAdjustments(flags, keys \ {k})

\* (mutant) the adjustments subtracted instead of added
ConditionAdjustmentSubtracted(b) == 0 - SumAdjustments(b.flags, ConditionKeys)

\* the sum of conditionAdjustments[key] over the keys with
\* conditionData[key] === false
ConditionAdjustment(b) == SumAdjustments(b.flags, ConditionKeys)

\* const mileageDiff = mileage - expectedMileage; a missing mileage makes it
\* NaN, and NaN > 0 is false
MileageOver(b) ==
    IF b.hasMileage /\ b.mileage - ExpectedMileage(b.year) > 0
    THEN b.mileage - ExpectedMileage(b.year)
    ELSE 0

\* Math.round((mileageDiff / 1000) * 50), for mileageDiff > 0.  Of the
\* excesses drawn here only 290 is a tie that the double product
\* (0.29 * 50 = 14.499999999999998) misses.
MileagePenalty(diff) ==
    IF diff = 290 THEN 14 ELSE (diff + 10) \div 20

\* (mutant) the penalty applied without the mileageDiff > 0 test
MileageAdjustmentUnguarded(b) ==
    IF b.hasMileage
    THEN 0 - MileagePenalty(b.mileage - ExpectedMileage(b.year))
    ELSE 0

\* mileageDiff > 0 ? -Math.round((mileageDiff / 1000) * 50) : 0
MileageAdjustment(b) ==
    IF MileageOver(b) > 0 THEN 0 - MileagePenalty(MileageOver(b)) ELSE 0

\* offerAmount before the instant-cash multiplier
AdjustedValue(b) == RetailValue(b) + ConditionAdjustment(b) + MileageAdjustment(b)

\* (mutant) the multiplier applied to the retail value, the penalties after
DiscountedOfferPenaltiesLast(b) ==
    (83 * RetailValue(b) + 50) \div 100 + ConditionAdjustment(b)
        + MileageAdjustment(b)

\* offerAmount = Math.round(offerAmount * 0.83)
DiscountedOffer(b) == (83 * AdjustedValue(b) + 50) \div 100

\* (mutant) the offer without its minimum
OfferAmountNoFloor(b) == DiscountedOffer(b)

\* Math.max(offerAmount, 1000)
OfferAmount(b) == Max(DiscountedOffer(b), MinimumValue)

\* Math.round(offerAmount * 0.17), of the discounted amount.  Of the amounts
\* that arise here only -20750 is a tie that the double product
\* (-3527.5000000000005) misses.
InstantCashDiscount(b) ==
    LET x == DiscountedOffer(b)
    IN  IF x = 0 - 20750 THEN 0 - 3528 ELSE (17 * x + 50) \div 100

NoOffer == [ status |-> 0 ]

\* The whole handler: reading a property of an absent vehicleData or
\* conditionData throws a TypeError, which the catch turns into a 500.
OfferResponse(b) ==
    IF ~b.hasVehicleData \/ ~b.hasConditionData
    THEN [ status |-> 500, success |-> FALSE, error |-> "Failed to calculate offer" ]
    ELSE [ status |-> 200, success |-> TRUE,
           offerAmount |-> OfferAmount(b),
           confidenceBand |-> IF b.hasPhotos THEN 100 ELSE 250,
           validDays |-> 7,
           validMiles |-> 300,
           offerDetails |->
             [ retailValue |-> RetailValue(b),
               conditionAdjustment |-> ConditionAdjustment(b),
               mileageAdjustment |-> MileageAdjustment(b),
               instantCashDiscount |-> InstantCashDiscount(b),
               finalOffer |-> OfferAmount(b) ] ]

OfferCalculate ==
    /\ offerOut = NoOffer
    /\ offerOut' = OfferResponse(offerIn)
    /\ UNCHANGED <<offerIn, decodeVars, valueVars>>

(***************************************************************************)
(* server.js: the JWT cache and POST /api/vehicle/decode (carAPI).         *)
(*                                                                         *)
(* A request slot: pc is "idle" (no request), "awaitLogin" (suspended at   *)
(* the axios.post of getCarAPIToken) or "awaitLookup" (suspended at the    *)
(* axios.get of the handler).  When the handler sends its response the     *)
(* slot is free again and the finished request, pc "done", is kept in      *)
(* `last`.  logins and lookups count the upstream calls the request has    *)
(* issued; loginFailure and lookupFailure record how the upstream failed   *)
(* it (NoFailure: it did not; NoResponse: a network error, without         *)
(* error.response; TimedOut: a timeout, also without error.response; else  *)
(* the status); complete, that the lookup resolved with make, model and    *)
(* year.  Neither axios call is given a timeout option, so a timeout is    *)
(* one the transport reports.                                              *)
(***************************************************************************)
NoFailure  == 0 - 1
NoResponse == 0
TimedOut   == 1
HttpErrorStatuses == {401, 404, 429, 500}
UpstreamFailures  == HttpErrorStatuses \cup {NoResponse, TimedOut}

NoResp == [ status |-> 0, error |-> "", baseValue |-> 0 ]

IdleReq ==
    [ pc |-> "idle", vinLen |-> 0, logins |-> 0, lookups |-> 0, jwt |-> NoToken,
      loginFailure |-> NoFailure, lookupFailure |-> NoFailure,
      complete |-> FALSE, resp |-> NoResp ]

\* what the upstream VIN lookup returns on success: '' stands for a missing
\* make or model, 0 for a missing year or msrp
LookupData ==
    { [ make |-> "Toyota", model |-> "RAV4", year |-> ThisYear - 2,
        body_type |-> "Sport Utility Vehicle (SUV)/Multi-Purpose Vehicle (MPV)",
        msrp |-> 0 ],
      [ make |-> "BMW", model |-> "X5", year |-> ThisYear - MaxAge,
        body_type |-> "", msrp |-> 1000 ],
      [ make |-> "", model |-> "RAV4", year |-> ThisYear - 2, body_type |-> "",
        msrp |-> 0 ],
      [ make |-> "Toyota", model |-> "RAV4", year |-> 0, body_type |-> "",
        msrp |-> 31995 ] }

\* (mutant) only a missing vin is rejected, the length is not compared
InvalidVinMissingOnly(len) == len = 0

\* !vin || vin.length !== 17
InvalidVin(len) == len # VinLength

\* (mutant) the cached token used without looking at its expiry
CacheValidIgnoresExpiry == cachedJWT # NoToken

\* cachedJWT && jwtExpiry && new Date() < jwtExpiry
CacheValid == cachedJWT # NoToken /\ jwtExpiry # NoExpiry /\ now < jwtExpiry

\* (mutant) the catch block without its 429 branch
ErrorResponseNoRateLimit(failure) ==
    IF failure = 401
        THEN [ status |-> 500, error |-> "API authentication failed", baseValue |-> 0 ]
    ELSE IF failure = 404
        THEN [ status |-> 404, error |-> "VIN not found", baseValue |-> 0 ]
    ELSE [ status |-> 500, error |-> "Failed to decode VIN", baseValue |-> 0 ]

\* (mutant) the catch block without its 401 branch
ErrorResponseNoAuthBranch(failure) ==
    IF failure = 404
        THEN [ status |-> 404, error |-> "VIN not found", baseValue |-> 0 ]
    ELSE IF failure = 429
        THEN [ status |-> 429, error |-> "Rate limit exceeded", baseValue |-> 0 ]
    ELSE [ status |-> 500, error |-> "Failed to decode VIN", baseValue |-> 0 ]

\* the catch block of the handler: the response for a rejected upstream call
ErrorResponse(failure) ==
    IF failure = 401
        THEN [ status |-> 500, error |-> "API authentication failed", baseValue |-> 0 ]
    ELSE IF failure = 404
        THEN [ status |-> 404, error |-> "VIN not found", baseValue |-> 0 ]
    ELSE IF failure = 429
        THEN [ status |-> 429, error |-> "Rate limit exceeded", baseValue |-> 0 ]
    ELSE [ status |-> 500, error |-> "Failed to decode VIN", baseValue |-> 0 ]

\* !data.make || !data.model || !data.year
Incomplete(data) == data.make = "" \/ data.model = "" \/ data.year = 0

\* vehicleInfo as calculateBaseValue reads it
VehicleInfo(data) ==
    [ year |-> data.year, make |-> data.make, bodyClass |-> data.body_type,
      fuelType |-> "", engineCylinders |-> 0 ]

\* the response once the lookup has resolved
LookupResponse(data) ==
    IF Incomplete(data)
    THEN [ status |-> 400, error |-> "VIN not found or incomplete data",
           baseValue |-> 0 ]
    ELSE [ status |-> 200, error |-> "",
           baseValue |-> CalculateBaseValueCarApi(VehicleInfo(data), data.msrp) ]

\* getCarAPIToken goes to the upstream unless the cached token is valid;
\* it does not look at the logins other requests have in flight
NeedsLogin == ~CacheValid

\* A decode request arrives in a free slot and runs to its first await or
\* to its response.
DecodeRequest(r, len) ==
    /\ deployed = "server.js"
    /\ reqs[r].pc = "idle"
    /\ IF InvalidVin(len)
       THEN /\ last' = [ IdleReq EXCEPT !.pc = "done", !.vinLen = len,
                           !.resp = [ status |-> 400,
                                      error |-> "Invalid VIN. Must be 17 characters.",
                                      baseValue |-> 0 ] ]
            /\ reqs' = reqs
       ELSE IF ~credsConfigured
       THEN /\ last' = [ IdleReq EXCEPT !.pc = "done", !.vinLen = len,
                           !.resp = [ status |-> 500,
                                      error |-> "API configuration error",
                                      baseValue |-> 0 ] ]
            /\ reqs' = reqs
       ELSE IF NeedsLogin
       THEN /\ reqs' = [reqs EXCEPT ![r] =
                  [ IdleReq EXCEPT !.pc = "awaitLogin", !.vinLen = len,
                                   !.logins = 1 ]]
            /\ last' = last
       ELSE /\ reqs' = [reqs EXCEPT ![r] =
                  [ IdleReq EXCEPT !.pc = "awaitLookup", !.vinLen = len,
                                   !.jwt = cachedJWT, !.lookups = 1 ]]
            /\ last' = last
    /\ UNCHANGED <<cachedJWT, jwtExpiry, now, credsConfigured, deployed, nreq,
                   valueVars, offerVars>>

\* (mutant) the token cached without its expiry
LoginResolvesTokenOnly(r, token) ==
    /\ reqs[r].pc = "awaitLogin"
    /\ cachedJWT' = token
    /\ reqs' = [reqs EXCEPT ![r].pc = "awaitLookup", ![r].jwt = token,
                            ![r].lookups = @ + 1]
    /\ UNCHANGED <<jwtExpiry, now, credsConfigured, deployed, last, nreq,
                   valueVars, offerVars>>

\* The login call resolves with a token: getCarAPIToken caches it and
\* returns, and the handler goes on to issue the VIN lookup.
LoginResolves(r, token) ==
    /\ reqs[r].pc = "awaitLogin"
    /\ cachedJWT' = token
    /\ jwtExpiry' = now + TokenLifetime
    /\ reqs' = [reqs EXCEPT ![r].pc = "awaitLookup", ![r].jwt = token,
                            ![r].lookups = @ + 1]
    /\ UNCHANGED <<now, credsConfigured, deployed, last, nreq, valueVars, offerVars>>

\* (mutant) a rejected login also empties the cache
LoginRejectsClearsCache(r, failure) ==
    /\ reqs[r].pc = "awaitLogin"
    /\ last' = [reqs[r] EXCEPT !.pc = "done", !.loginFailure = failure,
                               !.resp = ErrorResponse(failure)]
    /\ reqs' = [reqs EXCEPT ![r] = IdleReq]
    /\ cachedJWT' = NoToken
    /\ jwtExpiry' = NoExpiry
    /\ UNCHANGED <<now, credsConfigured, deployed, nreq, valueVars, offerVars>>

\* The login call rejects: getCarAPIToken rethrows and the handler's catch
\* block answers.
LoginRejects(r, failure) ==
    /\ reqs[r].pc = "awaitLogin"
    /\ last' = [reqs[r] EXCEPT !.pc = "done", !.loginFailure = failure,
                               !.resp = ErrorResponse(failure)]
    /\ reqs' = [reqs EXCEPT ![r] = IdleReq]
    /\ UNCHANGED <<cachedJWT, jwtExpiry, now, credsConfigured, deployed, nreq,
                   valueVars, offerVars>>

\* The VIN lookup resolves: the handler answers 400 or 200.
LookupResolves(r, data) ==
    /\ reqs[r].pc = "awaitLookup"
    /\ last' = [reqs[r] EXCEPT !.pc = "done", !.jwt = NoToken,
                               !.complete = ~Incomplete(data),
                               !.resp = LookupResponse(data)]
    /\ reqs' = [reqs EXCEPT ![r] = IdleReq]
    /\ UNCHANGED <<cachedJWT, jwtExpiry, now, credsConfigured, deployed, nreq,
                   valueVars, offerVars>>

\* The VIN lookup rejects: the handler's catch block answers.
LookupRejects(r, failure) ==
    /\ reqs[r].pc = "awaitLookup"
    /\ last' = [reqs[r] EXCEPT !.pc = "done", !.jwt = NoToken,
                               !.lookupFailure = failure,
                               !.resp = ErrorResponse(failure)]
    /\ reqs' = [reqs EXCEPT ![r] = IdleReq]
    /\ UNCHANGED <<cachedJWT, jwtExpiry, now, credsConfigured, deployed, nreq,
                   valueVars, offerVars>>

\* time passes
Tick ==
    /\ deployed = "server.js"
    /\ now < MaxTime
    /\ now' = now + 1
    /\ UNCHANGED <<cachedJWT, jwtExpiry, credsConfigured, deployed, reqs, last, nreq,
                   valueVars, offerVars>>

(***************************************************************************)
(* part_003: POST /api/vehicle/decode (NHTSA).  No token, one upstream     *)
(* call; every failure after validation is answered 500.                   *)
(***************************************************************************)
IdleNhtsa ==
    [ pc |-> "idle", vinLen |-> 0, calls |-> 0, failure |-> NoFailure,
      decoded |-> FALSE, resp |-> NoResp ]

\* Results[0] of the NHTSA answer: its ErrorCode and the decoded fields
NhtsaData ==
    { [ ErrorCode |-> "0", vehicle |->
          [ year |-> ThisYear - 2, make |-> "Ford", bodyClass |-> "Pickup",
            fuelType |-> "", engineCylinders |-> 8 ] ],
      [ ErrorCode |-> "1", vehicle |->
          [ year |-> 0, make |-> "Unknown", bodyClass |-> "",
            fuelType |-> "", engineCylinders |-> 0 ] ],
      [ ErrorCode |-> "8", vehicle |->
          [ year |-> 0, make |-> "Unknown", bodyClass |-> "",
            fuelType |-> "", engineCylinders |-> 0 ] ] }

NhtsaFailureResponse ==
    [ status |-> 500,
      error |-> "Failed to decode VIN. Please check the VIN and try again.",
      baseValue |-> 0 ]

\* data.ErrorCode !== '0' && data.ErrorCode !== '1'
NotDecoded(data) == data.ErrorCode # "0" /\ data.ErrorCode # "1"

NhtsaDecodeRequest(len) ==
    /\ deployed = "part_003"
    /\ nreq.pc \in {"idle", "done"}
    /\ nreq' =
          IF InvalidVin(len)
          THEN [ IdleNhtsa EXCEPT !.pc = "done", !.vinLen = len,
                   !.resp = [ status |-> 400,
                              error |-> "Invalid VIN. Must be 17 characters.",
                              baseValue |-> 0 ] ]
          ELSE [ IdleNhtsa EXCEPT !.pc = "awaitDecode", !.vinLen = len, !.calls = 1 ]
    /\ UNCHANGED <<cachedJWT, jwtExpiry, now, credsConfigured, deployed, reqs, last,
                   valueVars, offerVars>>

NhtsaResolves(data) ==
    /\ nreq.pc = "awaitDecode"
    /\ nreq' = [ nreq EXCEPT !.pc = "done", !.decoded = ~NotDecoded(data),
                   !.resp = IF NotDecoded(data)
                            THEN NhtsaFailureResponse
                            ELSE [ status |-> 200, error |-> "",
                                   baseValue |-> CalculateBaseValue(data.vehicle) ] ]
    /\ UNCHANGED <<cachedJWT, jwtExpiry, now, credsConfigured, deployed, reqs, last,
                   valueVars, offerVars>>

NhtsaRejects(failure) ==
    /\ nreq.pc = "awaitDecode"
    /\ nreq' = [ nreq EXCEPT !.pc = "done", !.failure = failure,
                   !.resp = NhtsaFailureResponse ]
    /\ UNCHANGED <<cachedJWT, jwtExpiry, now, credsConfigured, deployed, reqs, last,
                   valueVars, offerVars>>

(***************************************************************************)
(* Specifications.                                                         *)
(***************************************************************************)
DecodeInit ==
    /\ cachedJWT = NoToken
    /\ jwtExpiry = NoExpiry
    /\ now = 0
    /\ reqs = [r \in ReqIds |-> IdleReq]
    /\ last = IdleReq
    /\ nreq = IdleNhtsa

ValueIdle ==
    /\ valIn = [ vehicle |-> [ year |-> 0, make |-> "Unknown", bodyClass |-> "",
                               fuelType |-> "", engineCylinders |-> 0 ],
                 msrp |-> 0 ]
    /\ valOut = NoValues

OfferIdle ==
    /\ offerIn = OfferBody([ has |-> FALSE, baseValue |-> 0, year |-> 0 ],
                           [ has |-> FALSE,
                             flags |-> [k \in ConditionKeys |-> "absent"] ],
                           [ has |-> FALSE, value |-> 0 ], FALSE)
    /\ offerOut = NoOffer

\* Spec: the two decode endpoints under concurrent requests.
Init ==
    /\ DecodeInit
    /\ deployed \in {"server.js", "part_003"}
    /\ credsConfigured \in BOOLEAN
    /\ ValueIdle
    /\ OfferIdle

Next ==
    \/ \E r \in ReqIds, len \in VinLengths : DecodeRequest(r, len)
    \/ \E r \in ReqIds, token \in Tokens : LoginResolves(r, token)
    \/ \E r \in ReqIds, f \in UpstreamFailures : LoginRejects(r, f)
    \/ \E r \in ReqIds, data \in LookupData : LookupResolves(r, data)
    \/ \E r \in ReqIds, f \in UpstreamFailures : LookupRejects(r, f)
    \/ Tick
    \/ \E len \in VinLengths : NhtsaDecodeRequest(len)
    \/ \E data \in NhtsaData : NhtsaResolves(data)
    \/ \E f \in UpstreamFailures : NhtsaRejects(f)

Spec == Init /\ [][Next]_vars

\* the upstream call a request is suspended at settles, one way or another
LoginSettles(r) ==
    \/ \E token \in Tokens : LoginResolves(r, token)
    \/ \E f \in UpstreamFailures : LoginRejects(r, f)

LookupSettles(r) ==
    \/ \E data \in LookupData : LookupResolves(r, data)
    \/ \E f \in UpstreamFailures : LookupRejects(r, f)

NhtsaSettles ==
    \/ \E data \in NhtsaData : NhtsaResolves(data)
    \/ \E f \in UpstreamFailures : NhtsaRejects(f)

\* SpecLive: Spec with every upstream call settling eventually (resolved,
\* rejected with a status, failed on the network or timed out).  Once the
\* promise settles the handler's continuation runs: the event loop leaves
\* no settled promise unhandled.
SpecLive ==
    /\ Init
    /\ [][Next]_vars
    /\ \A r \in ReqIds : WF_vars(LoginSettles(r)) /\ WF_vars(LookupSettles(r))
    /\ WF_vars(NhtsaSettles)

\* SpecValue: calculateBaseValue, both variants, on every drawn input.
InitValue ==
    /\ DecodeInit
    /\ deployed = "part_003"
    /\ credsConfigured = TRUE
    /\ OfferIdle
    /\ valIn \in [ vehicle : Vehicles, msrp : Msrps ]
    /\ valOut = NoValues

NextValue ==
    \/ ApplyCalculateBaseValue
    \/ ApplyCalculateBaseValueCarApi

SpecValue == InitValue /\ [][NextValue]_vars

\* SpecOffer: the offer endpoint on every drawn request body.
InitOffer ==
    /\ DecodeInit
    /\ deployed = "part_003"
    /\ credsConfigured = TRUE
    /\ ValueIdle
    /\ \E vd \in VehicleDatas, cd \in ConditionDatas, photos \in BOOLEAN :
         \E m \in MileageInputs(vd.year) :
            offerIn = OfferBody(vd, cd, m, photos)
    /\ offerOut = NoOffer

NextOffer == OfferCalculate

SpecOffer == InitOffer /\ [][NextOffer]_vars

(***************************************************************************)
(* Properties.                                                             *)
(***************************************************************************)
Done(q) == q.pc = "done"

\* C1: a decode request whose vin is missing or not 17 characters long is
\* answered 400 with an error message and issues no upstream call (no
\* login, no VIN lookup), whatever the token cache holds; in both variants.
C1_InvalidVinRejected ==
    /\ \A r \in ReqIds : reqs[r].pc # "idle" => reqs[r].vinLen = VinLength
    /\ (Done(last) /\ last.vinLen # VinLength) =>
            /\ last.resp.status = 400
            /\ last.resp.error # ""
            /\ last.logins = 0
            /\ last.lookups = 0
    /\ (nreq.pc # "idle" /\ nreq.vinLen # VinLength) =>
            /\ nreq.pc = "done"
            /\ nreq.resp.status = 400
            /\ nreq.resp.error # ""
            /\ nreq.calls = 0

\* an 18-character vin rejected while a valid token is cached
C1_Witness ==
    /\ Done(last)
    /\ last.vinLen = VinLength + 1
    /\ last.resp.status = 400
    /\ last.logins = 0 /\ last.lookups = 0
    /\ cachedJWT # NoToken
    /\ now < jwtExpiry

\* C2: at most one login request to the upstream is in flight at any time.
C2_AtMostOneLoginInFlight ==
    Cardinality({ r \in ReqIds : reqs[r].pc = "awaitLogin" }) <= 1

\* C3: calculateBaseValue returns at least 1000 for every input, in the
\* multiplicative variant and in the MSRP-aware variant.
C3_BaseValueAtLeastMinimum ==
    /\ valOut.nhtsaDone => valOut.nhtsa >= 1000
    /\ valOut.carApiDone => valOut.carApi >= 1000

\* the base value the offer computation started from
StartValue == IF offerIn.baseValue # 0 THEN offerIn.baseValue ELSE 25000

\* C4 as stated: every successful offer is at most the base value it started
\* from and at least 1000.
C4_OfferWithinBaseAndMinimum ==
    offerOut.status = 200 =>
        /\ offerOut.offerAmount <= StartValue
        /\ offerOut.offerAmount >= 1000

\* C4 as amended: every successful offer is at least 1000, and it is at most
\* the base value whenever the base value is itself at least 1000 (below
\* that the offer is exactly 1000).
C4_OfferWithinBaseOrMinimum ==
    offerOut.status = 200 =>
        /\ offerOut.offerAmount >= 1000
        /\ StartValue >= 1000 => offerOut.offerAmount <= StartValue
        /\ StartValue < 1000 => offerOut.offerAmount = 1000

\* an offer strictly between the minimum and its base value, after a
\* condition penalty and a mileage penalty
C4_Witness ==
    /\ offerOut.status = 200
    /\ offerIn.flags["tires"] = "false"
    /\ offerIn.hasMileage /\ offerIn.mileage > ExpectedMileage(offerIn.year)
    /\ offerOut.offerAmount > 1000
    /\ offerOut.offerAmount < StartValue

\* the offer for the request body of this state with one flag set to val
OfferWithFlag(k, val) ==
    OfferResponse([offerIn EXCEPT !.flags[k] = val]).offerAmount

\* C5: with everything else fixed, a condition flag that is false gives a
\* strictly lower offer than the flag true, unless the offer with the flag
\* true is already the 1000 minimum, and then the same offer; never a
\* higher one.
C5_FalseFlagLowersOffer ==
    offerOut.status = 200 =>
        \A k \in ConditionKeys :
            /\ offerIn.flags[k] = "false" =>
                 LET whenTrue == OfferWithFlag(k, "true")
                 IN  /\ offerOut.offerAmount <= whenTrue
                     /\ whenTrue > 1000 => offerOut.offerAmount < whenTrue
                     /\ whenTrue = 1000 => offerOut.offerAmount = whenTrue
            /\ offerIn.flags[k] = "true" =>
                 LET whenFalse == OfferWithFlag(k, "false")
                 IN  /\ whenFalse <= offerOut.offerAmount
                     /\ offerOut.offerAmount > 1000 => whenFalse < offerOut.offerAmount
                     /\ offerOut.offerAmount = 1000 => whenFalse = 1000

\* an offer above the minimum, lowered by a reported accident
C5_Witness ==
    /\ offerOut.status = 200
    /\ offerIn.flags["accidents"] = "false"
    /\ offerOut.offerAmount > 1000
    /\ offerOut.offerAmount < OfferWithFlag("accidents", "true")

\* the offer for the request body of this state with the mileage exactly at
\* the expected mileage
OfferAtExpected ==
    OfferResponse([offerIn EXCEPT !.hasMileage = TRUE,
                      !.mileage = 12000 * (ThisYear -
                         (IF offerIn.year # 0 THEN offerIn.year ELSE 2020))]).offerAmount

MilesOver == offerIn.mileage - 12000 * (ThisYear -
                 (IF offerIn.year # 0 THEN offerIn.year ELSE 2020))

\* C6 as stated: any mileage above the expected mileage gives a strictly
\* lower offer than the expected mileage does; any mileage at or below it
\* gives mileageAdjustment = 0 and the same offer.
C6_MileageAboveStrictlyLowers ==
    (offerOut.status = 200 /\ offerIn.hasMileage) =>
        /\ MilesOver > 0 => offerOut.offerAmount < OfferAtExpected
        /\ MilesOver <= 0 =>
             /\ offerOut.offerDetails.mileageAdjustment = 0
             /\ offerOut.offerAmount = OfferAtExpected

\* C6 as amended: mileage above the expected mileage never gives a higher
\* offer, and gives a strictly lower one once the excess is at least 30
\* miles and the offer at the expected mileage is above the 1000 minimum;
\* mileage at or below it gives mileageAdjustment = 0 and the same offer.
C6_MileageAboveNeverRaises ==
    (offerOut.status = 200 /\ offerIn.hasMileage) =>
        /\ MilesOver > 0 => offerOut.offerAmount <= OfferAtExpected
        /\ (MilesOver >= 30 /\ OfferAtExpected > 1000) =>
              offerOut.offerAmount < OfferAtExpected
        /\ MilesOver <= 0 =>
             /\ offerOut.offerDetails.mileageAdjustment = 0
             /\ offerOut.offerAmount = OfferAtExpected

\* 30 miles over the expected mileage, and a strictly lower offer
C6_Witness ==
    /\ offerOut.status = 200
    /\ offerIn.hasMileage
    /\ MilesOver = 30
    /\ offerOut.offerDetails.mileageAdjustment = 0 - 2
    /\ offerOut.offerAmount < OfferAtExpected

\* the rate the claim tabulates, for an age of 0 or more
TabulatedRate(age) ==
    IF age = 0 THEN 0
    ELSE IF age = 1 THEN 20
    ELSE IF age <= 5 THEN 20 + 15 * (age - 1)
    ELSE IF 80 + 10 * (age - 5) < 85 THEN 80 + 10 * (age - 5) ELSE 85

\* the vehicle of this state carries no brand, body, fuel or engine multiplier
PlainVehicle ==
    /\ valIn.vehicle.make = "Unknown"
    /\ valIn.vehicle.bodyClass = ""
    /\ valIn.vehicle.fuelType = ""
    /\ valIn.vehicle.engineCylinders = 0

\* C7: the depreciation rate of the multiplicative calculateBaseValue is
\* 0% at age 0, 20% at age 1, 20% + 15% per year beyond the first for ages
\* 2-5, and 80% + 10% per year beyond the fifth capped at 85% above; it
\* never decreases with age and never exceeds 85%, so the value before the
\* multipliers is never below 15% of the 25000 anchor (3750).
C7_DepreciationTiers ==
    valOut.nhtsaDone =>
        LET age == ThisYear - (IF valIn.vehicle.year # 0 THEN valIn.vehicle.year
                               ELSE 2020)
        IN  /\ age >= 0 => DepreciationRate(age) = TabulatedRate(age)
            /\ DepreciationRate(age) <= DepreciationRate(age + 1)
            /\ DepreciationRate(age) <= 85
            /\ DepreciatedValue(age) >= 3750
            /\ (PlainVehicle /\ age >= 0) =>
                  valOut.nhtsa = 250 * (100 - TabulatedRate(age))

\* a plain vehicle older than five years, valued at 15% of the anchor
C7_Witness ==
    /\ valOut.nhtsaDone
    /\ PlainVehicle
    /\ ThisYear - valIn.vehicle.year > 5
    /\ valIn.vehicle.year # 0
    /\ valOut.nhtsa = 3750

\* C8: the truck-brand multiplier and the truck-body multiplier are never
\* both multiplied into the same result.
C8_TruckPremiumAtMostOnce ==
    valOut.nhtsaDone =>
        ~ ( /\ valIn.vehicle.make \in truckMakes
            /\ BrandMultiplier(valIn.vehicle) = 130
            /\ BodyMultiplier(valIn.vehicle) = 125 )

\* the request was for a well-formed vin that the upstream could not
\* resolve: a 404, or a record without make, model or year
Unresolvable(q) ==
    /\ Done(q)
    /\ q.vinLen = VinLength
    /\ \/ q.lookupFailure = 404
       \/ q.lookups = 1 /\ q.lookupFailure = NoFailure /\ ~q.complete

\* C9: a 17-character vin that the upstream cannot resolve is answered with
\* a not-found response whose status is not the 400 of a validation error.
C9_NotFoundDistinctFromValidation ==
    Unresolvable(last) =>
        /\ last.resp.status # 400
        /\ last.resp.status = 404

\* C10: an upstream 429, from the login or from the VIN lookup, ends the
\* request with a 429 'Rate limit exceeded' response that no other failure
\* produces; and a request issues at most one login call and at most one
\* lookup call: a failed call ends the request and is not retried.
C10_RateLimitSurfacedNoRetry ==
    LET limited == last.loginFailure = 429 \/ last.lookupFailure = 429
    IN  /\ limited =>
            /\ Done(last)
            /\ last.resp.status = 429
            /\ last.resp.error = "Rate limit exceeded"
        /\ (Done(last) /\ ~limited) =>
            /\ last.resp.status # 429
            /\ last.resp.error # "Rate limit exceeded"
        /\ last.logins <= 1
        /\ last.lookups <= 1
        /\ last.loginFailure # NoFailure => last.lookups = 0
        /\ \A r \in ReqIds :
            /\ reqs[r].logins <= 1
            /\ reqs[r].lookups <= 1
            /\ reqs[r].loginFailure = NoFailure
            /\ reqs[r].lookupFailure = NoFailure

\* a lookup answered 429 after a successful login, surfaced as 429
C10_Witness ==
    /\ Done(last)
    /\ last.lookupFailure = 429
    /\ last.logins = 1
    /\ last.lookups = 1
    /\ last.resp.status = 429

\* the step answers a request with 'API configuration error'
AnswersConfigurationError ==
    /\ last' # last
    /\ last'.resp.error = "API configuration error"

\* C11: a decode request with a 17-character vin made while CARAPI_TOKEN or
\* CARAPI_SECRET is not configured is answered 500 'API configuration
\* error', has issued no upstream call, and the step that answers it leaves
\* cachedJWT and jwtExpiry as they were; a request whose login or lookup
\* the upstream rejects with 401 is answered 500 'API authentication
\* failed' and has issued that call once only.
C11_ConfigurationAndAuthenticationErrors ==
    /\ [] ( /\ (Done(last) /\ last.vinLen = VinLength /\ ~credsConfigured) =>
                  /\ last.resp.status = 500
                  /\ last.resp.error = "API configuration error"
                  /\ last.logins = 0
                  /\ last.lookups = 0
            /\ ~credsConfigured => \A r \in ReqIds : reqs[r].pc = "idle"
            /\ (Done(last) /\ last.loginFailure = 401) =>
                  /\ last.resp.status = 500
                  /\ last.resp.error = "API authentication failed"
                  /\ last.logins = 1
                  /\ last.lookups = 0
            /\ (Done(last) /\ last.lookupFailure = 401) =>
                  /\ last.resp.status = 500
                  /\ last.resp.error = "API authentication failed"
                  /\ last.logins <= 1
                  /\ last.lookups = 1 )
    /\ [][AnswersConfigurationError => UNCHANGED <<cachedJWT, jwtExpiry, reqs>>]_vars

\* a 17-character vin answered with the configuration error, no call issued
C11_Witness ==
    /\ Done(last)
    /\ last.vinLen = VinLength
    /\ ~credsConfigured
    /\ last.resp.status = 500
    /\ last.resp.error = "API configuration error"
    /\ last.logins = 0 /\ last.lookups = 0
    /\ cachedJWT = NoToken

\* C12: the offer calculation never fails: every request body, also one
\* without vehicleData, conditionData, baseValue, year or mileage, is
\* answered with a success response carrying a numeric offerAmount.
C12_OfferNeverFails ==
    offerOut # NoOffer =>
        /\ offerOut.status = 200
        /\ offerOut.success
        /\ offerOut.offerAmount \in Int

\* Math.round(msrp * percent / 100)
RoundedShare(msrp, percent) == (msrp * percent + 50) \div 100

\* C13: in the MSRP-aware calculateBaseValue, with an msrp present and > 0
\* the result is round(msrp x retained rate of the age), the rate being 80%
\* up to age 1, never rising with age and 15% above age 10, and the result
\* is the same for every make and body class; otherwise the result is the
\* age-tier value times the brand and body multipliers and is the same for
\* every msrp that is absent or not positive.
C13_ValuationPathsExclusive ==
    valOut.carApiDone =>
        LET v   == valIn.vehicle
            age == ThisYear - v.year
        IN  /\ valIn.msrp > 0 =>
                /\ valOut.carApi = RoundedShare(valIn.msrp, RetainedRate(age))
                /\ age <= 1 => valOut.carApi = RoundedShare(valIn.msrp, 80)
                /\ age > 10 => valOut.carApi = RoundedShare(valIn.msrp, 15)
                /\ RetainedRate(age + 1) <= RetainedRate(age)
                /\ RetainedRate(age) \in 15..80
                /\ \A mk \in Makes, bc \in BodyClasses :
                      CalculateBaseValueCarApi(
                          [v EXCEPT !.make = mk, !.bodyClass = bc], valIn.msrp)
                        = valOut.carApi
            /\ valIn.msrp <= 0 =>
                /\ valOut.carApi =
                      (AgeTierValue(age) * CarApiMultipliers(v) + 50) \div 100
                /\ \A m \in Msrps :
                      m <= 0 => CalculateBaseValueCarApi(v, m) = valOut.carApi

\* a two-year-old BMW truck with an msrp: 70% of the msrp, no multiplier
C13_Witness ==
    /\ valOut.carApiDone
    /\ valIn.msrp = 31995
    /\ valIn.vehicle.make = "BMW"
    /\ valIn.vehicle.bodyClass = "Truck"
    /\ valIn.vehicle.year = ThisYear - 2
    /\ valOut.carApi = 22397

\* status and error of a response: what a client can branch on
Category(resp) == [ status |-> resp.status, error |-> resp.error ]

\* C14: every decode request with a 17-character vin is eventually answered
\* (its slot is free again) whatever way the upstream call settles, and a
\* request whose upstream call timed out is answered with a failure whose
\* status or error differs from the answer to every other upstream failure.
C14_AnsweredAndTimeoutDistinct ==
    /\ \A r \in ReqIds : (reqs[r].pc # "idle") ~> (reqs[r].pc = "idle")
    /\ [] ( (Done(last) /\ (last.loginFailure = TimedOut
                             \/ last.lookupFailure = TimedOut)) =>
               /\ last.resp.status >= 400
               /\ \A f \in UpstreamFailures \ {TimedOut} :
                     Category(last.resp) # Category(ErrorResponse(f)) )

\* Math.round(x * 0.83)
InstantCashShare(x) == (83 * x + 50) \div 100

\* every condition flag of the request body is true
AllFlagsTrue == \A k \in ConditionKeys : offerIn.flags[k] = "true"

\* C15: with every condition flag true and the mileage at or below the
\* expected mileage, offerAmount = max(round(baseValue x 0.83), 1000); in
\* general the penalties of the breakdown are subtracted before the 0.83
\* multiplier and the 1000 minimum is applied last.
C15_OfferFormula ==
    offerOut.status = 200 =>
        /\ (AllFlagsTrue /\ offerIn.hasMileage /\ MilesOver <= 0) =>
              offerOut.offerAmount =
                 (IF InstantCashShare(StartValue) >= 1000
                  THEN InstantCashShare(StartValue) ELSE 1000)
        /\ LET d == offerOut.offerDetails
               x == InstantCashShare(d.retailValue + d.conditionAdjustment
                                        + d.mileageAdjustment)
           IN  /\ d.retailValue = StartValue
               /\ d.conditionAdjustment <= 0
               /\ d.mileageAdjustment <= 0
               /\ offerOut.offerAmount = (IF x >= 1000 THEN x ELSE 1000)

\* all flags true, mileage exactly as expected: 83% of the base value
C15_Witness ==
    /\ offerOut.status = 200
    /\ AllFlagsTrue
    /\ offerIn.hasMileage /\ MilesOver = 0
    /\ offerIn.baseValue = 25000
    /\ offerOut.offerAmount = 20750

\* slot r takes a request that gets as far as getCarAPIToken in this step
CallsGetToken(r) == reqs[r].pc = "idle" /\ reqs'[r].pc # "idle"

\* C16: getCarAPIToken issues a login call if and only if the cache holds
\* no token or the time is at or past the cached expiry; otherwise it
\* returns the cached token, which is then not past its expiry, issues no
\* login and leaves the cache alone.
C16_LoginIffCacheMiss ==
    [][ \A r \in ReqIds : CallsGetToken(r) =>
          LET miss == cachedJWT = NoToken \/ now >= jwtExpiry
          IN  /\ miss <=> (reqs'[r].pc = "awaitLogin" /\ reqs'[r].logins = 1)
              /\ miss => reqs'[r].jwt = NoToken /\ reqs'[r].lookups = 0
              /\ ~miss => /\ reqs'[r].pc = "awaitLookup"
                          /\ reqs'[r].logins = 0
                          /\ reqs'[r].jwt = cachedJWT
                          /\ now < jwtExpiry
              /\ UNCHANGED <<cachedJWT, jwtExpiry>> ]_vars

\* a request served from the cache some time after the login, before the
\* expiry
C16_Witness ==
    \E r \in ReqIds :
        /\ reqs[r].pc = "awaitLookup"
        /\ reqs[r].logins = 0
        /\ reqs[r].jwt = cachedJWT
        /\ cachedJWT # NoToken
        /\ now > 0
        /\ now < jwtExpiry

\* the login of the request in slot r fails in this step
LoginFails(r) == reqs[r].pc = "awaitLogin" /\ reqs'[r].pc = "idle"

\* the handler answers the failed login with a failure response, the VIN
\* lookup never issued
FailureAnswered ==
    /\ Done(last')
    /\ last'.loginFailure # NoFailure
    /\ last'.resp.status \in {404, 429, 500}
    /\ last'.resp.error # ""
    /\ last'.lookups = 0

LoginCompletes(r) == reqs[r].pc = "awaitLogin" /\ reqs'[r].pc = "awaitLookup"

\* C18: in every reachable state cachedJWT and jwtExpiry are both unset or
\* both set; a step in which a login completes sets them to that login's
\* token and to the time of that step plus six days (two units of three
\* days), and no other step changes them: so when set they are the pair
\* written by the most recently completed login.
C18_CacheConsistent ==
    /\ [] ( /\ cachedJWT = NoToken <=> jwtExpiry = NoExpiry
            /\ cachedJWT # NoToken =>
                  /\ cachedJWT \in Tokens
                  /\ jwtExpiry >= 2
                  /\ jwtExpiry <= now + 2 )
    /\ [][ /\ \A r \in ReqIds : LoginCompletes(r) =>
                  /\ cachedJWT' = reqs'[r].jwt
                  /\ cachedJWT' # NoToken
                  /\ jwtExpiry' = now + 2
           /\ (\A r \in ReqIds : ~LoginCompletes(r)) =>
                  UNCHANGED <<cachedJWT, jwtExpiry>> ]_vars

\* two requests whose logins completed with different tokens: the cache
\* holds the pair of the later one
C18_Witness ==
    \E r, q \in ReqIds :
        /\ r # q
        /\ reqs[r].pc = "awaitLookup" /\ reqs[r].logins = 1
        /\ reqs[q].pc = "awaitLookup" /\ reqs[q].logins = 1
        /\ reqs[r].jwt # reqs[q].jwt
        /\ cachedJWT = reqs[r].jwt
        /\ now > 0
        /\ jwtExpiry = now + 2

\* C19: in every successful offer response offerDetails.finalOffer equals
\* offerAmount, and offerDetails.instantCashDiscount equals what the
\* instant-purchase multiplier removed: (retailValue + conditionAdjustment
\* + mileageAdjustment) minus the amount after the multiplier.
C19_BreakdownReconciles ==
    offerOut.status = 200 =>
        LET d        == offerOut.offerDetails
            adjusted == d.retailValue + d.conditionAdjustment + d.mileageAdjustment
        IN  /\ d.finalOffer = offerOut.offerAmount
            /\ d.instantCashDiscount = adjusted - InstantCashShare(adjusted)

====
